---- MODULE Spec2Model ----
(***************************************************************************)
(* Model of fixes/signal_fixer.py: the classifier is_signal and the        *)
(* libcst transformer SignalFixer, run over a parsed stub module.          *)
(*                                                                         *)
(* A syntax node is a record.  ClassDef, FunctionDef and the statement     *)
(* built by parse_statement carry                                          *)
(*     id, kind, name, leading_lines, body, annotation                     *)
(* where id is the identity of the node object (the position of the        *)
(* definition in the file, 0 for a node the transformer creates), and a    *)
(* leading line (libcst EmptyLine) carries kind and comment.               *)
(* The transformer is driven by libcst's depth-first traversal: a node is  *)
(* visited, then its children, then it is left with the original node and  *)
(* the node rebuilt from the values returned for its children.  The stub   *)
(* file is read lazily: the children of a node are drawn when the          *)
(* traversal reaches them, so a node that is still open is known by its    *)
(* header (kind, name, leading_lines) and by the children seen so far.     *)
(***************************************************************************)
EXTENDS Naturals, Sequences, FiniteSets, TLC

\* ---------------------------------------------------------------- bounds
MaxNodes == 4
MaxDepth == 3

\* ------------------------------------------------------------ input sets
ClassNames == {"Foo", "QGeoPositionInfoSource"}
FuncNames == {"bar", "error"}

EmptyLine(comment) == [kind |-> "EmptyLine", comment |-> comment]

NoLines == <<>>
BlankAndComment == <<EmptyLine(""), EmptyLine("# overload")>>

\* The function definitions a stub may hold, by name and leading lines.
FunctionHeads ==
    {[name |-> "bar", lines |-> NoLines],
     [name |-> "bar", lines |-> BlankAndComment],
     [name |-> "error", lines |-> NoLines]}

ClassDef(id, name, body) ==
    [id |-> id, kind |-> "ClassDef", name |-> name, leading_lines |-> <<>>,
     body |-> body, annotation |-> ""]

FunctionDef(id, name, lines, body) ==
    [id |-> id, kind |-> "FunctionDef", name |-> name, leading_lines |-> lines,
     body |-> body, annotation |-> ""]

\* The runtime attribute kinds: a bound signal type or anything else.
Signal == "pyqtSignal"
Method == "builtin_function_or_method"

\* A runtime module: its __name__ and, per class it defines, the attributes
\* of that class with the type of each.
QtCoreModule ==
    [name |-> "PyQt6.QtCore",
     members |-> [c \in {"Foo"} |-> [a \in {"bar"} |-> Signal]]]

QtPositioningModule ==
    [name |-> "PyQt6.QtPositioning",
     members |-> [c \in {"Foo", "QGeoPositionInfoSource"} |->
                    IF c = "Foo"
                    THEN [a \in {"bar", "error"} |->
                            IF a = "bar" THEN Signal ELSE Method]
                    ELSE [a \in {"bar", "error"} |-> Signal]]]

Modules == {QtCoreModule, QtPositioningModule}

\* Every runtime module over the modelled names (used to state the
\* classifier's contract for all modules).
AttrMaps == UNION {[S -> {Signal, Method}] : S \in SUBSET FuncNames}
AllModules ==
    {[name |-> n, members |-> m] :
        n \in {"PyQt6.QtCore", "PyQt6.QtPositioning"},
        m \in UNION {[S -> AttrMaps] : S \in SUBSET ClassNames}}

ModuleNode(body) ==
    [id |-> 0, kind |-> "Module", name |-> "", leading_lines |-> <<>>,
     body |-> body, annotation |-> ""]

\* ------------------------------------------------------------ classifier
class_warning(mod, cls_name) ==
    "Warning! Could not find class <module '" \o mod.name \o "'>." \o cls_name

method_warning(cls_name, func_name) ==
    "Warning! Could not find method " \o cls_name \o "." \o func_name

\* is_signal without its first test.
is_signal_without_exception(mod, cls_name, func_name) ==
    IF cls_name \notin DOMAIN mod.members
    THEN [value |-> FALSE, out |-> <<class_warning(mod, cls_name)>>]
    ELSE IF func_name \notin DOMAIN mod.members[cls_name]
    THEN [value |-> FALSE, out |-> <<method_warning(cls_name, func_name)>>]
    ELSE [value |-> mod.members[cls_name][func_name] = Signal, out |-> <<>>]

\* is_signal going on to the method lookup after a class was not found.
is_signal_without_return(mod, cls_name, func_name) ==
    IF cls_name = "QGeoPositionInfoSource" /\ func_name = "error"
    THEN [value |-> FALSE, out |-> <<>>]
    ELSE IF cls_name \notin DOMAIN mod.members
    THEN [value |-> FALSE, out |-> <<class_warning(mod, cls_name),
                                    method_warning(cls_name, func_name)>>]
    ELSE IF func_name \notin DOMAIN mod.members[cls_name]
    THEN [value |-> FALSE, out |-> <<method_warning(cls_name, func_name)>>]
    ELSE [value |-> mod.members[cls_name][func_name] = Signal, out |-> <<>>]

\* is_signal: the value returned and the lines it printed.
is_signal(mod, cls_name, func_name) ==
    IF cls_name = "QGeoPositionInfoSource" /\ func_name = "error"
    THEN [value |-> FALSE, out |-> <<>>]
    ELSE IF cls_name \notin DOMAIN mod.members
    THEN [value |-> FALSE, out |-> <<class_warning(mod, cls_name)>>]
    ELSE IF func_name \notin DOMAIN mod.members[cls_name]
    THEN [value |-> FALSE, out |-> <<method_warning(cls_name, func_name)>>]
    ELSE [value |-> mod.members[cls_name][func_name] = Signal, out |-> <<>>]

\* ----------------------------------------------------------- transformer
VARIABLES
    module,         \* self._module, bound at construction
    last_class,     \* self._last_class
    fixed_signals,  \* self._fixed_signals
    walk,           \* libcst's traversal: the open nodes, outermost first, each
                    \* with its children as parsed and as rebuilt so far
    visited,        \* the number of definitions read so far
    output,         \* <<>> until the pass ends, then <<the transformed module>>
    pc,             \* "run", "done", or the exception that ended the pass
    stdout,         \* the lines printed so far
    trace           \* history: one record per callback that has run

vars == <<module, last_class, fixed_signals, walk, visited, output, pc, stdout, trace>>

RemovalSentinel == [kind |-> "RemovalSentinel"]
FlattenSentinel(nodes) == [kind |-> "FlattenSentinel", nodes |-> nodes]

\* What libcst puts in the parent's body for a value returned by a leave_
\* callback.
Splice(ret) ==
    IF ret.kind = "RemovalSentinel" THEN <<>>
    ELSE IF ret.kind = "FlattenSentinel" THEN ret.nodes
    ELSE <<ret>>

\* A membership test that finds nothing.
Contains_nothing(seq, x) == FALSE

\* `x in seq`
Contains(seq, x) == \E i \in 1..Len(seq) : seq[i] = x

\* The first early return alone.
out_of_scope_empty_only(stack) == stack = <<>>

\* Lines 46-49: the two early returns of leave_FunctionDef.
out_of_scope(stack) == stack = <<>> \/ Len(stack) > 1

full_name(cls_name, f_name) == cls_name \o "." \o f_name

\* The qualified form whatever the module.
stmt_always_qualified(mod, f_name) ==
    <<f_name, ":", "typing.ClassVar[QtCore.pyqtSignal]">>

\* Lines 60-63: the statement text, as the tokens target, ":" and annotation.
stmt(mod, f_name) ==
    IF mod.name = "PyQt6.QtCore"
    THEN <<f_name, ":", "typing.ClassVar[pyqtSignal]">>
    ELSE <<f_name, ":", "typing.ClassVar[QtCore.pyqtSignal]">>

\* cst.parse_statement on an annotated name without a value.
parse_statement(tokens) ==
    [id |-> 0, kind |-> "AnnAssign", name |-> tokens[1], leading_lines |-> <<>>,
     body |-> <<>>, annotation |-> tokens[3]]

\* The source text libcst generates for such a statement.
code_for_node(node) == node.name \o ": " \o node.annotation

deep_clone(line) == [kind |-> line.kind, comment |-> line.comment]

\* The declaration put before the copied lines.
with_leading_lines_after(original_node, node) ==
    IF original_node.leading_lines # <<>>
    THEN FlattenSentinel(
            <<node>> \o [i \in 1..Len(original_node.leading_lines) |->
                            deep_clone(original_node.leading_lines[i])])
    ELSE node

\* Lines 65-72: the value returned for a converted signal.
with_leading_lines(original_node, node) ==
    IF original_node.leading_lines # <<>>
    THEN FlattenSentinel(
            [i \in 1..Len(original_node.leading_lines) |->
                deep_clone(original_node.leading_lines[i])] \o <<node>>)
    ELSE node

\* Line 59: self._fixed_signals.append(full_name), and the same forgotten.
append_forgotten(fixed, key) == fixed
append(fixed, key) == Append(fixed, key)

\* leave_FunctionDef removing what is not a signal.
leave_FunctionDef_return_removing(mod, stack, fixed, original_node) ==
    IF out_of_scope(stack)
    THEN [ret |-> original_node, fixed |-> fixed, consulted |-> FALSE,
          value |-> FALSE, out |-> <<>>]
    ELSE LET f_name == original_node.name
             owner == stack[Len(stack)].name
             q == is_signal(mod, owner, f_name)
         IN IF q.value
            THEN IF Contains(fixed, full_name(owner, f_name))
                 THEN [ret |-> RemovalSentinel, fixed |-> fixed,
                       consulted |-> TRUE, value |-> TRUE, out |-> q.out]
                 ELSE [ret |-> with_leading_lines(original_node,
                                   parse_statement(stmt(mod, f_name))),
                       fixed |-> append(fixed, full_name(owner, f_name)),
                       consulted |-> TRUE, value |-> TRUE, out |-> q.out]
            ELSE [ret |-> RemovalSentinel, fixed |-> fixed,
                  consulted |-> TRUE, value |-> FALSE, out |-> q.out]

\* leave_FunctionDef as a function of the transformer's state: the value it
\* returns, the registry afterwards, whether is_signal was called, what
\* is_signal returned and printed.
leave_FunctionDef_return(mod, stack, fixed, original_node) ==
    IF out_of_scope(stack)
    THEN [ret |-> original_node, fixed |-> fixed, consulted |-> FALSE,
          value |-> FALSE, out |-> <<>>]
    ELSE LET f_name == original_node.name
             owner == stack[Len(stack)].name
             q == is_signal(mod, owner, f_name)
         IN IF q.value
            THEN IF Contains(fixed, full_name(owner, f_name))
                 THEN [ret |-> RemovalSentinel, fixed |-> fixed,
                       consulted |-> TRUE, value |-> TRUE, out |-> q.out]
                 ELSE [ret |-> with_leading_lines(original_node,
                                   parse_statement(stmt(mod, f_name))),
                       fixed |-> append(fixed, full_name(owner, f_name)),
                       consulted |-> TRUE, value |-> TRUE, out |-> q.out]
            ELSE [ret |-> original_node, fixed |-> fixed,
                  consulted |-> TRUE, value |-> FALSE, out |-> q.out]

\* ------------------------------------------------------------- traversal
Top == walk[Len(walk)]
Frame(node) == [node |-> node, orig |-> <<>>, body |-> <<>>]

\* The node of the file as the parser built it, and as libcst rebuilt it from
\* the values returned for its children.
OriginalNode(frame) == [frame.node EXCEPT !.body = frame.orig]
UpdatedNode(frame) == [frame.node EXCEPT !.body = frame.body]

\* The traversal after the top node has been left with value ret.
Returned(ret) ==
    LET n == Len(walk)
    IN Append(SubSeq(walk, 1, n - 2),
              [walk[n - 1] EXCEPT !.orig = Append(@, OriginalNode(walk[n])),
                                  !.body = @ \o Splice(ret)])

Event(op, original, ret, r) ==
    [op |-> op, original |-> original, ret |-> ret,
     stack_before |-> last_class, fixed_before |-> fixed_signals,
     consulted |-> r.consulted, value |-> r.value, out |-> r.out]

NoQuery == [consulted |-> FALSE, value |-> FALSE, out |-> <<>>]

\* More of the file may follow: below the size and nesting bounds.
CanOpen == pc = "run" /\ visited < MaxNodes /\ Len(walk) <= MaxDepth

Init ==
    /\ module \in Modules
    /\ last_class = <<>>
    /\ fixed_signals = <<>>
    /\ walk = <<Frame(ModuleNode(<<>>))>>
    /\ visited = 0
    /\ output = <<>>
    /\ pc = "run"
    /\ stdout = <<>>
    /\ trace = <<>>

visit_ClassDef ==
    /\ CanOpen
    /\ \E name \in ClassNames :
         LET node == ClassDef(visited + 1, name, <<>>)
         IN /\ last_class' = Append(last_class, node)
            /\ walk' = Append(walk, Frame(node))
            /\ trace' = Append(trace, Event("visit_ClassDef", node, node, NoQuery))
    /\ visited' = visited + 1
    /\ UNCHANGED <<module, fixed_signals, output, pc, stdout>>

\* FunctionDef has no visit_ callback: libcst descends into it.
visit_FunctionDef ==
    /\ CanOpen
    /\ \E head \in FunctionHeads :
         LET node == FunctionDef(visited + 1, head.name, head.lines, <<>>)
         IN /\ walk' = Append(walk, Frame(node))
            /\ trace' = Append(trace, Event("visit_FunctionDef", node, node, NoQuery))
    /\ visited' = visited + 1
    /\ UNCHANGED <<module, last_class, fixed_signals, output, pc, stdout>>

leave_FunctionDef ==
    /\ pc = "run" /\ Top.node.kind = "FunctionDef"
    /\ LET original_node == OriginalNode(Top)
           r == leave_FunctionDef_return(module, last_class, fixed_signals,
                                         original_node)
       IN /\ fixed_signals' = r.fixed
          /\ stdout' = stdout \o r.out
          /\ walk' = Returned(r.ret)
          /\ trace' = Append(trace, Event("leave_FunctionDef", original_node, r.ret, r))
    /\ UNCHANGED <<module, last_class, visited, output, pc>>

\* leave_ClassDef without the pop.
leave_ClassDef_without_pop ==
    /\ pc = "run" /\ Top.node.kind = "ClassDef"
    /\ walk' = Returned(UpdatedNode(Top))
    /\ trace' = Append(trace,
           Event("leave_ClassDef", OriginalNode(Top), UpdatedNode(Top), NoQuery))
    /\ UNCHANGED <<module, last_class, fixed_signals, visited, output, pc, stdout>>

leave_ClassDef ==
    /\ pc = "run" /\ Top.node.kind = "ClassDef"
    /\ LET original_node == OriginalNode(Top)
           updated_node == UpdatedNode(Top)
       IN IF last_class = <<>>
          THEN /\ pc' = "IndexError"
               /\ UNCHANGED <<last_class, walk, trace>>
          ELSE /\ last_class' = SubSeq(last_class, 1, Len(last_class) - 1)
               /\ walk' = Returned(updated_node)
               /\ trace' = Append(trace,
                      Event("leave_ClassDef", original_node, updated_node, NoQuery))
               /\ pc' = pc
    /\ UNCHANGED <<module, fixed_signals, visited, output, stdout>>

\* Module has no leave_ callback: libcst returns the rebuilt module.
leave_Module ==
    /\ pc = "run" /\ Top.node.kind = "Module"
    /\ output' = <<UpdatedNode(Top)>>
    /\ pc' = "done"
    /\ UNCHANGED <<module, last_class, fixed_signals, walk, visited, stdout, trace>>

Next ==
    \/ visit_ClassDef
    \/ visit_FunctionDef
    \/ leave_FunctionDef
    \/ leave_ClassDef
    \/ leave_Module

Spec == Init /\ [][Next]_vars

\* ------------------------------------------------------------ properties
Events == {trace[i] : i \in 1..Len(trace)}
Last == trace[Len(trace)]
\* The invariants below look at the newest event of the history, alone or
\* with the events before it: every event is the newest one in the state
\* right after its callback, so what holds of the newest event in every
\* reachable state holds of every event of every run.
Newest == IF trace = <<>> THEN {} ELSE {Len(trace)}
NewestEvent == {trace[i] : i \in Newest}
LeftFunction(e) == e.op = "leave_FunctionDef"
Owner(e) == e.stack_before[Len(e.stack_before)]
Key(e) == full_name(Owner(e).name, e.original.name)
InRegistry(fixed, key) == key \in {fixed[k] : k \in 1..Len(fixed)}
\* The method left by e is rewritten: a signal whose key is not registered.
Rewritten(e) ==
    /\ LeftFunction(e) /\ e.consulted /\ e.value
    /\ ~InRegistry(e.fixed_before, Key(e))
IsDeclaration(ret) == ret.kind = "AnnAssign"
IsReplacement(ret) ==
    \/ IsDeclaration(ret)
    \/ ret.kind = "FlattenSentinel" /\ IsDeclaration(ret.nodes[Len(ret.nodes)])
Declaration(ret) ==
    IF ret.kind = "FlattenSentinel" THEN ret.nodes[Len(ret.nodes)] ELSE ret
\* The registry right after event i.
FixedAfter(i) ==
    IF i = Len(trace) THEN fixed_signals ELSE trace[i + 1].fixed_before
StackAfter(i) ==
    IF i = Len(trace) THEN last_class ELSE trace[i + 1].stack_before

\* C2: a function left while the class stack is empty or deeper than one is
\* returned as the original node, without a call of is_signal and without a
\* change of the registry, also when it names a genuine signal of its class.
C2_NestedUntouched ==
    \A i \in Newest :
        LeftFunction(trace[i]) /\ Len(trace[i].stack_before) # 1 =>
            /\ trace[i].ret = trace[i].original
            /\ ~trace[i].consulted
            /\ trace[i].out = <<>>
            /\ FixedAfter(i) = trace[i].fixed_before

\* A method of a class nested in a class has been left, and it is a signal of
\* its class in the bound module.
C2_Witness ==
    /\ trace # <<>>
    /\ LeftFunction(Last)
    /\ Len(Last.stack_before) = 2
    /\ is_signal(module, Owner(Last).name, Last.original.name).value
    /\ Last.original.leading_lines # <<>>

\* C8: the class stack is the chain of the open class definitions, outermost
\* first: visit_ClassDef pushes the class entered, leave_ClassDef pops the
\* class left, no pop meets an empty stack, and the stack is empty when the
\* pass ends.
OpenClasses ==
    LET frames == SelectSeq(walk, LAMBDA f : f.node.kind = "ClassDef")
    IN [i \in 1..Len(frames) |-> frames[i].node]

C8_StackDiscipline ==
    /\ pc # "IndexError"
    /\ pc = "run" => last_class = OpenClasses
    /\ pc = "done" => last_class = <<>>
    /\ \A i \in Newest :
        LET e == trace[i]
        IN /\ e.op = "visit_ClassDef" =>
                StackAfter(i) = Append(e.stack_before, e.original)
           /\ e.op = "leave_ClassDef" =>
                /\ e.stack_before # <<>>
                /\ Owner(e).id = e.original.id
                /\ Append(StackAfter(i), Owner(e)) = e.stack_before
           /\ e.op \in {"visit_FunctionDef", "leave_FunctionDef"} =>
                StackAfter(i) = e.stack_before

\* A method that follows a nested class in the body of its class has been
\* left at depth 1, owned by the outer class, and was converted.
C8_Witness ==
    /\ trace # <<>>
    /\ LeftFunction(Last)
    /\ Len(Last.stack_before) = 1
    /\ IsReplacement(Last.ret)
    /\ Top.node.id = Owner(Last).id
    /\ Len(Top.orig) = 2
    /\ Top.orig[1].kind = "ClassDef"
    /\ Top.orig[1].body # <<>>
    /\ Top.orig[2] = Last.original

\* Events i < j are the leaves of two consecutive method definitions of one
\* depth-1 class, with the same name, both classified as a signal.
OverloadPair(i, j) ==
    /\ i < j
    /\ LeftFunction(trace[i]) /\ LeftFunction(trace[j])
    /\ Len(trace[i].stack_before) = 1 /\ Len(trace[j].stack_before) = 1
    /\ Owner(trace[i]).id = Owner(trace[j]).id
    /\ trace[i + 1].op = "visit_FunctionDef"
    /\ trace[i + 1].original.id = trace[j].original.id
    /\ trace[i].original.name = trace[j].original.name
    /\ trace[i].value /\ trace[j].value

\* The rebuilt body of the class that owns event j, as far as it is built.
OwnerBodies(j) ==
    {e.ret.body : e \in {x \in Events : x.op = "leave_ClassDef"
                                        /\ x.original.id = Owner(trace[j]).id}}
    \cup {walk[k].body : k \in {n \in 1..Len(walk) :
                                  walk[n].node.id = Owner(trace[j]).id}}

SecondDropped(j) ==
    /\ trace[j].ret = RemovalSentinel
    /\ \A b \in OwnerBodies(j) :
          \A k \in 1..Len(b) :
              b[k].kind = "FunctionDef" => b[k].id # trace[j].original.id

\* C1 as stated: of two consecutive same-named signal methods of a depth-1
\* class, the first is replaced by a field declaration and the second is
\* removed (stated here for stub methods, whose bodies hold no definition).
C1_AsStated ==
    \A j \in Newest, i \in 1..Len(trace) :
        /\ OverloadPair(i, j)
        /\ trace[i].original.body = <<>> /\ trace[j].original.body = <<>>
        => IsReplacement(trace[i].ret) /\ SecondDropped(j)

\* The newest event closes the case of the overload left by event j: it is
\* that event, or the leave of the class that owns it.
Settles(n, j) ==
    \/ n = j
    \/ /\ trace[n].op = "leave_ClassDef"
       /\ trace[n].original.id = Owner(trace[j]).id

\* C1 (amended): of two consecutive same-named signal methods of a depth-1
\* class, the first is replaced by a field declaration when its key is not
\* yet registered and removed when it is; the second is always removed and
\* is absent from the rebuilt body of its class.
C1_OverloadCollapse ==
    \A n \in Newest, j \in 1..Len(trace), i \in 1..Len(trace) :
        OverloadPair(i, j) /\ Settles(n, j) =>
            /\ IF InRegistry(trace[i].fixed_before, Key(trace[i]))
               THEN trace[i].ret = RemovalSentinel
               ELSE IsReplacement(trace[i].ret)
            /\ SecondDropped(j)

\* Two consecutive overloads have been left: the first was replaced, the
\* second removed.
C1_Witness ==
    /\ Len(trace) >= 4
    /\ OverloadPair(Len(trace) - 2, Len(trace))
    /\ IsReplacement(trace[Len(trace) - 2].ret)
    /\ Last.ret = RemovalSentinel

\* The statement text depends on the module through its name alone.
StmtByNameOnly ==
    \A m1, m2 \in AllModules, f \in FuncNames :
        m1.name = m2.name => stmt(m1, f) = stmt(m2, f)

ConvertedFooBar(e) ==
    /\ Rewritten(e)
    /\ Owner(e).name = "Foo" /\ e.original.name = "bar"

\* C3 as stated: the declaration that replaces Foo.bar reads
\* `bar: ClassVar[pyqtSignal]` in PyQt6.QtCore and
\* `bar: ClassVar[QtCore.pyqtSignal]` in any other module.
C3_AsStated ==
    \A e \in NewestEvent :
        ConvertedFooBar(e) =>
            code_for_node(Declaration(e.ret)) =
                IF module.name = "PyQt6.QtCore"
                THEN "bar: ClassVar[pyqtSignal]"
                ELSE "bar: ClassVar[QtCore.pyqtSignal]"

\* C3 (amended): the declaration that replaces Foo.bar reads
\* `bar: typing.ClassVar[pyqtSignal]` in PyQt6.QtCore and
\* `bar: typing.ClassVar[QtCore.pyqtSignal]` in any other module, and the
\* choice depends on the name of the bound module alone.
C3_Declaration ==
    /\ StmtByNameOnly
    /\ \A e \in NewestEvent :
        ConvertedFooBar(e) =>
            /\ IsReplacement(e.ret)
            /\ code_for_node(Declaration(e.ret)) =
                    IF module.name = "PyQt6.QtCore"
                    THEN "bar: typing.ClassVar[pyqtSignal]"
                    ELSE "bar: typing.ClassVar[QtCore.pyqtSignal]"

\* Foo.bar has been converted in a module other than the core module, in a
\* class whose only member it is.
C3_Witness ==
    /\ pc = "done"
    /\ module.name # "PyQt6.QtCore"
    /\ Len(trace) = 4
    /\ ConvertedFooBar(trace[3])
    /\ output[1].body = <<ClassDef(1, "Foo", <<Declaration(trace[3].ret)>>)>>

\* C4: a converted method with leading lines returns the flattened sequence
\* of those lines, in order and with the same content, followed by the one
\* field declaration; without leading lines it returns the declaration
\* alone; the original node keeps its lines.
C4_LeadingLines ==
    \A i \in Newest :
        LET e == trace[i]
        IN Rewritten(e) =>
            /\ IF e.original.leading_lines # <<>>
               THEN /\ e.ret.kind = "FlattenSentinel"
                    /\ e.ret.nodes =
                         e.original.leading_lines \o <<Declaration(e.ret)>>
               ELSE e.ret.kind = "AnnAssign"
            /\ IsDeclaration(Declaration(e.ret))
            /\ Declaration(e.ret).name = e.original.name
            /\ Declaration(e.ret).leading_lines = <<>>
            /\ i = Len(trace) =>
                 Top.orig[Len(Top.orig)].leading_lines = e.original.leading_lines

\* A signal method with two leading lines has been converted.
C4_Witness ==
    /\ trace # <<>>
    /\ LeftFunction(Last)
    /\ Len(Last.original.leading_lines) = 2
    /\ Last.ret.kind = "FlattenSentinel"
    /\ Len(Last.ret.nodes) = 3

\* The classifier's contract over every module: the hardcoded exception
\* returns false and prints nothing whatever the module holds.
ExceptionUnconditional ==
    \A m \in AllModules :
        is_signal(m, "QGeoPositionInfoSource", "error")
            = [value |-> FALSE, out |-> <<>>]

\* C5: is_signal(module, "QGeoPositionInfoSource", "error") is false for
\* every module and prints no warning, and a depth-1 method error of a class
\* named QGeoPositionInfoSource is returned unchanged.
C5_HardcodedException ==
    /\ ExceptionUnconditional
    /\ \A i \in Newest :
        LET e == trace[i]
        IN /\ LeftFunction(e) /\ Len(e.stack_before) = 1
           /\ Owner(e).name = "QGeoPositionInfoSource"
           /\ e.original.name = "error"
           => /\ e.ret = e.original
              /\ ~e.value
              /\ e.out = <<>>
              /\ FixedAfter(i) = e.fixed_before

\* A depth-1 method error of QGeoPositionInfoSource has been left in a module
\* where that attribute is a signal.
C5_Witness ==
    /\ trace # <<>>
    /\ LeftFunction(Last) /\ Len(Last.stack_before) = 1
    /\ Owner(Last).name = "QGeoPositionInfoSource"
    /\ Last.original.name = "error"
    /\ "QGeoPositionInfoSource" \in DOMAIN module.members
    /\ "error" \in DOMAIN module.members["QGeoPositionInfoSource"]
    /\ module.members["QGeoPositionInfoSource"]["error"] = Signal
    /\ stdout = <<>>

NotException(c, f) == ~(c = "QGeoPositionInfoSource" /\ f = "error")

\* What the classifier owes for module m, class c, method f.
LookupContract(m, c, f, q) ==
    IF c \notin DOMAIN m.members
    THEN q = [value |-> FALSE, out |-> <<class_warning(m, c)>>]
    ELSE IF f \notin DOMAIN m.members[c]
    THEN q = [value |-> FALSE, out |-> <<method_warning(c, f)>>]
    ELSE /\ q.out = <<>>
         /\ q.value <=> m.members[c][f] = Signal

ClassifierContract ==
    \A m \in AllModules, c \in ClassNames, f \in FuncNames :
        NotException(c, f) => LookupContract(m, c, f, is_signal(m, c, f))

\* C6: outside the hardcoded exception, a missing class gives false and one
\* class-not-found warning (and no method warning), a missing method gives
\* false and one method-not-found warning, and when both lookups succeed
\* nothing is printed and the result is true exactly for a signal; each call
\* made by the transformer adds exactly those lines to the output.
C6_Lookups ==
    /\ ClassifierContract
    /\ \A i \in Newest :
        LET e == trace[i]
        IN e.consulted /\ NotException(Owner(e).name, e.original.name) =>
              LookupContract(module, Owner(e).name, e.original.name,
                             [value |-> e.value, out |-> e.out])
    /\ Len(stdout) =
         Cardinality({i \in 1..Len(trace) : trace[i].out # <<>>})

\* The transformer has asked about a method of a class the module lacks and
\* about a method the class lacks: two warnings, one of each kind.
C6_Witness ==
    /\ Len(stdout) = 2
    /\ \E c \in ClassNames, f \in FuncNames : stdout[1] = class_warning(module, c)
    /\ \E c \in ClassNames, f \in FuncNames : stdout[2] = method_warning(c, f)

\* C7: a depth-1 method the classifier rejects (also with a warning, for a
\* missing class or method) is returned as the original node, the class
\* stack and the registry stay as they were, no exception ends the pass, and
\* a signal method left later whose key is not registered is still replaced.
C7_NotSignalKept ==
    /\ pc \in {"run", "done"}
    /\ \A i \in Newest :
        LET e == trace[i]
        IN LeftFunction(e) /\ e.consulted /\ ~e.value =>
              /\ e.ret = e.original
              /\ StackAfter(i) = e.stack_before
              /\ FixedAfter(i) = e.fixed_before
    /\ \A j \in Newest, i \in 1..Len(trace) :
        /\ i < j
        /\ LeftFunction(trace[i]) /\ trace[i].consulted /\ ~trace[i].value
        /\ Rewritten(trace[j])
        => IsReplacement(trace[j].ret)

\* After a method was rejected with a warning, a signal method of the same
\* class has been replaced.
C7_Witness ==
    /\ Len(trace) >= 3
    /\ LeftFunction(Last) /\ IsReplacement(Last.ret)
    /\ \E i \in 1..(Len(trace) - 1) :
          /\ LeftFunction(trace[i]) /\ trace[i].consulted /\ ~trace[i].value
          /\ trace[i].out # <<>>
          /\ Owner(trace[i]).id = Owner(Last).id

NoDuplicates(seq) ==
    \A a, b \in 1..Len(seq) : seq[a] = seq[b] => a = b

ClassifiedSignal(e) == LeftFunction(e) /\ e.consulted /\ e.value

\* C9: the registry never holds a key twice and only grows; a key is
\* appended exactly by a leave_FunctionDef that returns a replacement
\* declaration, and it is the key of that method; a signal method left after
\* another with the same key is removed, so each key gets at most one
\* declaration.
C9_RegistryIsSet ==
    /\ NoDuplicates(fixed_signals)
    /\ \A i \in Newest :
        LET e == trace[i]
        IN IF LeftFunction(e) /\ IsReplacement(e.ret)
           THEN /\ e.stack_before # <<>>
                /\ FixedAfter(i) = Append(e.fixed_before, Key(e))
           ELSE FixedAfter(i) = e.fixed_before
    /\ \A j \in Newest, i \in 1..Len(trace) :
        /\ i < j
        /\ ClassifiedSignal(trace[i]) /\ ClassifiedSignal(trace[j])
        /\ Key(trace[i]) = Key(trace[j])
        => trace[j].ret = RemovalSentinel

\* A signal method has been removed whose key was registered by a method of
\* an earlier class definition with the same class name.
C9_Witness ==
    /\ Len(trace) >= 2
    /\ ClassifiedSignal(Last) /\ Last.ret = RemovalSentinel
    /\ \E i \in 1..(Len(trace) - 1) :
          /\ ClassifiedSignal(trace[i]) /\ IsReplacement(trace[i].ret)
          /\ Key(trace[i]) = Key(Last)
          /\ Owner(trace[i]).id # Owner(Last).id

\* The number of declarations of m that stand in the body of a class named c.
RECURSIVE Fields(_, _, _, _)
Fields(nodes, c, m, inside) ==
    IF nodes = <<>> THEN 0
    ELSE LET n == Head(nodes)
             here == IF n.kind = "AnnAssign"
                     THEN IF inside /\ n.name = m THEN 1 ELSE 0
                     ELSE IF n.kind \in {"ClassDef", "FunctionDef"}
                     THEN Fields(n.body, c, m, n.kind = "ClassDef" /\ n.name = c)
                     ELSE 0
         IN here + Fields(Tail(nodes), c, m, inside)

\* The identities of the function definitions that stand in a tree.
RECURSIVE FunctionIds(_)
FunctionIds(nodes) ==
    IF nodes = <<>> THEN {}
    ELSE LET n == Head(nodes)
         IN (IF n.kind = "FunctionDef" THEN {n.id} ELSE {})
            \cup (IF n.kind \in {"ClassDef", "FunctionDef"}
                  THEN FunctionIds(n.body) ELSE {})
            \cup FunctionIds(Tail(nodes))

\* No function definition of the file stands directly in the body of a
\* function definition.
NoFunctionInFunction ==
    \A e \in Events :
        LeftFunction(e) =>
            \A k \in 1..Len(e.original.body) :
                e.original.body[k].kind # "FunctionDef"

\* C10: when the pass has ended, every key C.m of the registry has exactly
\* one declaration of m in a class named C of the transformed tree, and no
\* method for which a replacement or a removal was returned is left in it
\* (stated here for files that nest no function directly in a function;
\* classes may stand in functions and in classes).
C10_RegistryMatchesOutput ==
    pc = "done" /\ NoFunctionInFunction =>
        /\ \A c \in ClassNames, m \in FuncNames :
              InRegistry(fixed_signals, full_name(c, m)) =>
                  Fields(output[1].body, c, m, FALSE) = 1
        /\ \A e \in Events :
              LeftFunction(e) /\ e.ret # e.original =>
                  e.original.id \notin FunctionIds(output[1].body)

====
